---- MODULE Spec2Model ----
(***************************************************************************)
(* Model of the measurement layer of pythondaq:                            *)
(*   - SolarCellExperiment.measure_u_i_r / scan_u_i_r and                  *)
(*     DiodeExperiment.measure_led / scan_led  (models/*.py), and          *)
(*   - Experiment.track_max_power_point with its start/stop calls          *)
(*     (views/solar_cell_gui.py).                                          *)
(* Voltages are integers on a fixed grid.  Times are integers in ms: the   *)
(* clock is kept modulo PERIOD_MS and advances in steps of TickMs, and a   *)
(* recorded instant is kept as its age, capped once it is past every       *)
(* constant it is compared with.                                           *)
(***************************************************************************)
EXTENDS Integers, Sequences, FiniteSets, TLC

\* ------------------------------------------------------------------ bounds
MaxVolt == 3
MaxRepeat == 2
MaxRows == 1         \* entries the rolling window holds
SweepLen == 1        \* setpoints of a sweep of the tracker
MaxRetried == 1      \* ValueErrors the environment causes within one scan pass
MaxWindow == 3       \* entries of a window handed to the window functions
MaxRaceTicks == 2    \* ticks of the clock in the runs of two racing threads
MaxBesideTicks == 5  \* ticks of the clock in the runs of a pass beside a second thread
MaxPoints == 3       \* points of a fine sweep handed to maximum_for_p
MaxSeries == 7       \* samples of a series handed to v_out_of_mosfet_sweetspot

\* -------------------------------------------------------- program constants
CH_VOUT == 0
CH_U1 == 1
CH_U2 == 2
ROUND_MS == 100        \* round(time() * 10) * 100
PERIOD_MS == 7000      \* t % 7000 == 0
ACTIVE_MOD_MS == 200   \* t % 200
GATE_MS == 2000        \* (time() - self._time_of_last_power_scan) > 2
WINDOW_MS == 1000      \* time() - 1, time() - 2
RETAIN_MS == 8000      \* t - self.p_r_t_rows[0][4] > 8
RETRIES == 10          \* def scan_for_max_power(retries=10)

VARIABLES
    kind,        \* which experiment class is used: "solar" or "diode"
    mode,        \* "measure": one measure call; "scan": one sweep generator
    args,        \* the arguments of the call
    scan_pc,     \* position of the sweep generator
    scan_k,      \* index of the next element of np.arange
    yielded,     \* the measurements the generator has yielded so far
    meas_pc,     \* position of the running measure call
    meas_v,      \* its output_voltage argument
    meas_left,   \* the carry `repeat` of the recursive sampling generator
    meas_samples,\* the raw samples collected by the list comprehension
    meas_base,   \* number of device calls made before the measure call began
    dev_log,     \* the calls the device has received, in order
    clock,       \* time() in ms, kept modulo PERIOD_MS
    since_scan,  \* time() - self._time_of_last_power_scan, capped
    p_r_t_rows,  \* self.p_r_t_rows: <<[p, age]>>, age = time() - timestamp, capped
    kill,        \* self._kill_max_pow_thread is set
    periodic,    \* self.max_p_periodic_tracking
    active,      \* self.max_p_active_tracking
    tracking_cb, \* the maximum-power tracking checkbox is checked
    max_pow_timer, \* the GUI's max_pow_timer is running
    max_pow_error, \* the GUI's max_pow_error holds an error
    wk,          \* the tracker threads: position and locals of each
    p_max,       \* self.p_max; self.r_max is set by the same statement
    p_max_err,   \* self.p_max_err; r_max_err and _max_p_v_out are set after it
    shown,       \* what max_pow_timer_tick last read of p_max and p_max_err
    since_pass,  \* history: time since a scan pass last completed, capped
    due,         \* history: a 7 s mark has passed and no periodic pass has started since
    fn,          \* the function a single call is made to, "none" if there is no such call
    fn_in,       \* the arguments of that call
    fn_out,      \* its result; fn_out.done tells whether the call has been made
    e_scanning,  \* the threading.Event handed to Experiment.scan is set
    sw,          \* the thread of Experiment.scan: position, steps, device, on_error calls
    gui          \* the Scan button is enabled, the scan_timer is running

acqVars == <<kind, mode, args, scan_pc, scan_k, yielded,
             meas_pc, meas_v, meas_left, meas_samples, meas_base, dev_log>>

trkVars == <<clock, since_scan, p_r_t_rows, kill, periodic, active, tracking_cb,
             max_pow_timer, max_pow_error, wk, p_max, p_max_err, shown,
             since_pass, due>>

calcVars == <<fn, fn_in, fn_out>>

scanVars == <<e_scanning, sw, gui>>

vars == <<acqVars, trkVars, calcVars, scanVars>>

\* ------------------------------------------------------------ the device
SetCall(ch, v) == [op |-> "set", ch |-> ch, val |-> v]
\* a read returns a value of its own; it is identified by its place in the log
GetCall(ch, log) == [op |-> "get", ch |-> ch, val |-> Len(log) + 1]

\* the channels one raw sample reads, in the order the code reads them
SampleChannels(k) ==
    IF k = "solar" THEN <<CH_U1, CH_U2>> ELSE <<CH_U1, CH_U2, CH_U2>>

RECURSIVE ReadAll(_, _)
ReadAll(chs, log) ==
    IF chs = <<>> THEN log
    ELSE ReadAll(Tail(chs), Append(log, GetCall(Head(chs), log)))

\* ------------------------------------------------------------- np.arange
CeilDiv(d, s) == IF s > 0 THEN -((-d) \div s) ELSE -(d \div (-s))

ArangeLenNoStop(start, stop, step) ==
    LET n == CeilDiv(stop - step - start, step) IN IF n > 0 THEN n ELSE 0

\* len(np.arange(start, stop, step)) for step # 0: ceil((stop - start) / step)
ArangeLen(start, stop, step) ==
    LET n == CeilDiv(stop - start, step) IN IF n > 0 THEN n ELSE 0

ArangeAt(start, step, k) == start + k * step

\* the setpoints of `for u in np.arange(start, end + step, step)`
ScanLen(a) == ArangeLen(a.start, a.end + a.step, a.step)

\* -------------------------------------------------------------- measure
\* base case of the recursive sampling generator
RecursionEndsLoose(k, left) == left < 0

RecursionEnds(k, left) == IF k = "solar" THEN left <= 0 ELSE left = 0

SetsOutputAlways(v) == TRUE

\* `if output_voltage > 0.0:` guards the set_output_voltage call
SetsOutput(v) == v > 0

Aggregate(v, samples) == [v_out |-> v, n |-> Len(samples), over |-> samples]

MeasureSetOutput ==
    /\ UNCHANGED <<trkVars, calcVars, scanVars>>
    /\ meas_pc = "entered"
    /\ \/ /\ SetsOutput(meas_v)
          /\ \/ /\ dev_log' = Append(dev_log, SetCall(CH_VOUT, meas_v))
                /\ meas_pc' = "sampling"
             \/ /\ meas_pc' = "DeviceError"
                /\ UNCHANGED dev_log
       \/ /\ ~SetsOutput(meas_v)
          /\ meas_pc' = "sampling"
          /\ UNCHANGED dev_log
    /\ UNCHANGED <<kind, mode, args, scan_pc, scan_k, yielded,
                   meas_v, meas_left, meas_samples, meas_base>>

\* one level of the recursion: the reads of one raw sample, then the yield
MeasureSample ==
    /\ UNCHANGED <<trkVars, calcVars, scanVars>>
    /\ meas_pc = "sampling"
    /\ ~RecursionEnds(kind, meas_left)
    /\ \/ /\ dev_log' = ReadAll(SampleChannels(kind), dev_log)
          /\ meas_samples' = Append(meas_samples,
                 [r \in 1..Len(SampleChannels(kind)) |-> Len(dev_log) + r])
          /\ meas_left' = meas_left - 1
          /\ UNCHANGED meas_pc
       \/ \E done \in 0..(Len(SampleChannels(kind)) - 1) :
             /\ dev_log' = ReadAll(SubSeq(SampleChannels(kind), 1, done), dev_log)
             /\ meas_pc' = "DeviceError"
             /\ UNCHANGED <<meas_samples, meas_left>>
    /\ UNCHANGED <<kind, mode, args, scan_pc, scan_k, yielded, meas_v, meas_base>>

\* the recursion has ended: unpack `zip(*pairs)` and aggregate
MeasureReturn ==
    /\ UNCHANGED <<trkVars, calcVars, scanVars>>
    /\ meas_pc = "sampling"
    /\ RecursionEnds(kind, meas_left)
    /\ meas_pc' = IF meas_samples = <<>> THEN "ValueError" ELSE "returned"
    /\ UNCHANGED <<kind, mode, args, scan_pc, scan_k, yielded,
                   meas_v, meas_left, meas_samples, meas_base, dev_log>>

\* ----------------------------------------------------------------- scan
BoundsRejectedNever(a) == FALSE

\* `if end_voltage < start_voltage: raise ValueError`
BoundsRejected(a) == a.end < a.start

\* first next() on the generator: the check, then np.arange
ScanBegin ==
    /\ UNCHANGED <<trkVars, calcVars, scanVars>>
    /\ mode = "scan"
    /\ scan_pc = "created"
    /\ scan_pc' = IF BoundsRejected(args) THEN "ValueError"
                  ELSE IF args.step = 0 THEN "ArangeError"
                  ELSE "iter"
    /\ UNCHANGED <<kind, mode, args, scan_k, yielded,
                   meas_pc, meas_v, meas_left, meas_samples, meas_base, dev_log>>

\* the loop body calls measure(u, repeat)
ScanNextPoint ==
    /\ UNCHANGED <<trkVars, calcVars, scanVars>>
    /\ scan_pc = "iter"
    /\ meas_pc = "idle"
    /\ scan_k < ScanLen(args)
    /\ meas_pc' = "entered"
    /\ meas_v' = ArangeAt(args.start, args.step, scan_k)
    /\ meas_left' = args.repeat
    /\ meas_samples' = <<>>
    /\ meas_base' = Len(dev_log)
    /\ UNCHANGED <<kind, mode, args, scan_pc, scan_k, yielded, dev_log>>

ScanYield ==
    /\ UNCHANGED <<trkVars, calcVars, scanVars>>
    /\ scan_pc = "iter"
    /\ meas_pc = "returned"
    /\ yielded' = Append(yielded, Aggregate(meas_v, meas_samples))
    /\ scan_k' = scan_k + 1
    /\ meas_pc' = "idle"
    /\ UNCHANGED <<kind, mode, args, scan_pc,
                   meas_v, meas_left, meas_samples, meas_base, dev_log>>

ScanRaiseResets ==
    /\ UNCHANGED <<trkVars, calcVars, scanVars>>
    /\ scan_pc = "iter"
    /\ meas_pc \in {"DeviceError", "ValueError"}
    /\ scan_pc' = meas_pc
    /\ dev_log' = Append(dev_log, SetCall(CH_VOUT, 0))
    /\ UNCHANGED <<kind, mode, args, scan_k, yielded,
                   meas_pc, meas_v, meas_left, meas_samples, meas_base>>

\* an exception of measure leaves the generator
ScanRaise ==
    /\ UNCHANGED <<trkVars, calcVars, scanVars>>
    /\ scan_pc = "iter"
    /\ meas_pc \in {"DeviceError", "ValueError"}
    /\ scan_pc' = meas_pc
    /\ UNCHANGED <<kind, mode, args, scan_k, yielded,
                   meas_pc, meas_v, meas_left, meas_samples, meas_base, dev_log>>

\* after the loop: self.visa.set_output_voltage(CH_VOUT, 0)
ScanReset ==
    /\ UNCHANGED <<trkVars, calcVars, scanVars>>
    /\ scan_pc = "iter"
    /\ meas_pc = "idle"
    /\ scan_k >= ScanLen(args)
    /\ \/ /\ dev_log' = Append(dev_log, SetCall(CH_VOUT, 0))
          /\ scan_pc' = "done"
       \/ /\ scan_pc' = "DeviceError"
          /\ UNCHANGED dev_log
    /\ UNCHANGED <<kind, mode, args, scan_k, yielded,
                   meas_pc, meas_v, meas_left, meas_samples, meas_base>>

\* ================================================================ tracker
\* The clock advances on a grid that the rounding to 100 ms maps to both odd
\* and even tenths of a second and that meets the multiples of PERIOD_MS.
TickMs == 7 * ROUND_MS

Min(a, b) == IF a < b THEN a ELSE b

\* the first grid value above c: where an age compared with c stops counting
CapAfter(c) == ((c \div TickMs) + 1) * TickMs

\* the values p = u * i of a measurement
PVals == {10}

Slots == {1, 2}

NoThread == [pc |-> "idle", t_mod |-> 0, retries |-> 0, why |-> "none",
             p_rows |-> <<>>, failed |-> FALSE,
             k |-> 0, swept |-> FALSE, stop_req |-> FALSE, stamp |-> 0 - 1]

Alive(w) == wk[w].pc \notin {"idle", "done", "crashed"}

Running(w) == Alive(w) /\ wk[w].pc # "open"

\* t = round(time() * 10) * 100, modulo PERIOD_MS
RoundedClock == (((clock + ROUND_MS \div 2) \div ROUND_MS) * ROUND_MS) % PERIOD_MS

\* ---------------------------------------------------- the rolling window
RECURSIVE PopWhileStored(_)
PopWhileStored(rows) ==
    IF rows = <<>> THEN [error |-> TRUE, rows |-> rows]
    ELSE IF rows[1].age >= 0 THEN PopWhileStored(Tail(rows))
    ELSE [error |-> FALSE, rows |-> rows]

\* while t - self.p_r_t_rows[0][4] > 8: self.p_r_t_rows.pop(0); indexing the
\* empty list raises IndexError
RECURSIVE PopWhileOld(_)
PopWhileOld(rows) ==
    IF rows = <<>> THEN [error |-> TRUE, rows |-> rows]
    ELSE IF rows[1].age > RETAIN_MS THEN PopWhileOld(Tail(rows))
    ELSE [error |-> FALSE, rows |-> rows]

\* pop_old_p_r_t_measurements
pop_old_p_r_t_measurements(rows) ==
    IF Len(rows) <= 1 THEN [error |-> FALSE, rows |-> rows] ELSE PopWhileOld(rows)

\* self.p_r_t_rows.append((p, p_err, r, r_err, time())); self.pop_old_...()
Recorded(p) ==
    pop_old_p_r_t_measurements(Append(p_r_t_rows, [p |-> p, age |-> 0])).rows

RECURSIVE SumP(_)
SumP(rows) == IF rows = <<>> THEN 0 ELSE Head(rows).p + SumP(Tail(rows))

InTimeRangeInclusive(rows, age_min, age_max) ==
    SelectSeq(rows, LAMBDA r : age_min <= r.age /\ r.age <= age_max)

\* [p for (p, _, _, _, t) in rows if t_start < t < t_end], the bounds as ages
InTimeRange(rows, age_min, age_max) ==
    SelectSeq(rows, LAMBDA r : age_min < r.age /\ r.age < age_max)

\* mean_power_in_time_range as the fraction sum / n; 0.0 when nothing matches
mean_power_in_time_range(rows, age_min, age_max) ==
    LET sel == InTimeRange(rows, age_min, age_max)
    IN  IF sel = <<>> THEN [sum |-> 0, n |-> 1] ELSE [sum |-> SumP(sel), n |-> Len(sel)]

Abs(x) == IF x < 0 THEN 0 - x ELSE x

\* np.abs(current_p - recent_p) > 0.1 * recent_p, on fractions
PowerChanged(rows) ==
    LET current_p == mean_power_in_time_range(rows, 0, WINDOW_MS)
        recent_p == mean_power_in_time_range(rows, WINDOW_MS, 2 * WINDOW_MS)
    IN  10 * Abs(current_p.sum * recent_p.n - recent_p.sum * current_p.n)
            > recent_p.sum * current_p.n

GateOpenAlways(elapsed) == TRUE

\* (time() - self._time_of_last_power_scan) > 2
GateOpen(elapsed) == elapsed > GATE_MS

ActiveTriggersIgnoringFlag(t_mod) ==
    /\ t_mod # 0
    /\ GateOpen(since_scan)
    /\ PowerChanged(p_r_t_rows)

\* the guard of the active strategy
ActiveTriggers(t_mod) ==
    /\ active
    /\ t_mod # 0
    /\ GateOpen(since_scan)
    /\ PowerChanged(p_r_t_rows)

\* the guard of the periodic strategy
PeriodicTriggers(t) == periodic /\ t % PERIOD_MS = 0

\* ------------------------------------------------------------ the GUI
StopRequested == [w \in Slots |-> IF Alive(w) THEN [wk[w] EXCEPT !.stop_req = TRUE]
                                  ELSE wk[w]]

\* max_pow_tracking_toggled, checkbox now checked: start_max_power_point_tracking
TrackingChecked(n) ==
    /\ ~tracking_cb
    /\ \E w \in 1..n :
          /\ ~Alive(w)
          /\ \A v \in 1..(w - 1) : Alive(v)
          /\ wk' = [wk EXCEPT ![w] = [NoThread EXCEPT !.pc = "open"]]
    /\ tracking_cb' = TRUE
    /\ active' = IF ~(periodic \/ active) THEN TRUE ELSE active
    /\ kill' = FALSE
    /\ max_pow_timer' = TRUE
    /\ UNCHANGED <<clock, shown, p_max, p_max_err, since_scan, p_r_t_rows, periodic, max_pow_error, since_pass, due>>
    /\ UNCHANGED <<acqVars, calcVars, scanVars>>

\* max_pow_tracking_toggled, checkbox now unchecked: stop_tracking_max_power_point
TrackingUnchecked ==
    /\ tracking_cb
    /\ tracking_cb' = FALSE
    /\ kill' = TRUE
    /\ wk' = StopRequested
    /\ max_pow_timer' = FALSE
    /\ UNCHANGED <<clock, shown, p_max, p_max_err, since_scan, p_r_t_rows, periodic, active, max_pow_error, since_pass, due>>
    /\ UNCHANGED <<acqVars, calcVars, scanVars>>

\* periodic_tracking_toggled / active_tracking_toggled; the strategy checkboxes
\* are shown while the tracking checkbox is checked
StrategyToggled(flags) ==
    /\ tracking_cb
    /\ \E flag \in flags :
          /\ periodic' = IF flag = "periodic" THEN ~periodic ELSE periodic
          /\ active' = IF flag = "active" THEN ~active ELSE active
    /\ IF ~(periodic' \/ active')
       THEN /\ tracking_cb' = FALSE
            /\ kill' = TRUE
            /\ wk' = StopRequested
            /\ max_pow_timer' = FALSE
       ELSE UNCHANGED <<tracking_cb, kill, wk, max_pow_timer>>
    /\ due' = FALSE
    /\ UNCHANGED <<clock, shown, p_max, p_max_err, since_scan, p_r_t_rows, max_pow_error, since_pass>>
    /\ UNCHANGED <<acqVars, calcVars, scanVars>>

\* max_pow_timer_tick with an error pending
MaxPowTimerTick ==
    /\ max_pow_timer
    /\ max_pow_error
    /\ kill' = TRUE
    /\ wk' = StopRequested
    /\ max_pow_error' = FALSE
    /\ max_pow_timer' = FALSE
    /\ UNCHANGED <<clock, shown, p_max, p_max_err, since_scan, p_r_t_rows, periodic, active, tracking_cb, since_pass, due>>
    /\ UNCHANGED <<acqVars, calcVars, scanVars>>

\* ------------------------------------------------- the tracker thread
Exit(w, how) == [wk EXCEPT ![w] = [NoThread EXCEPT !.pc = how]]

OthersRunning(w) == \E v \in Slots : v # w /\ Running(v)

\* `with SolarCellExperiment(port) as m:` opens the device
OpenDevice(w) ==
    /\ wk[w].pc = "open"
    /\ \/ /\ wk' = [wk EXCEPT ![w].pc = "loop"]
          /\ UNCHANGED max_pow_error
       \/ /\ wk' = Exit(w, "done")          \* SerialException: on_error(e)
          /\ max_pow_error' = TRUE
       \/ /\ wk' = Exit(w, "crashed")       \* VisaIOError is not caught here
          /\ UNCHANGED max_pow_error
    /\ UNCHANGED <<clock, shown, p_max, p_max_err, since_scan, p_r_t_rows, kill, periodic, active, tracking_cb,
                   max_pow_timer, since_pass, due>>
    /\ UNCHANGED <<acqVars, calcVars, scanVars>>

\* scan_for_max_power() is called from the periodic or the active strategy
EnterPass(w, why, t_mod) ==
    [wk EXCEPT ![w] = [@ EXCEPT !.pc = "coarse", !.why = why, !.t_mod = t_mod,
                                 !.retries = RETRIES, !.k = 0, !.p_rows = <<>>,
                                 !.swept = TRUE]]

\* `while not self._kill_max_pow_thread.is_set():`, t = ..., the periodic strategy
LoopHead(w) ==
    /\ wk[w].pc = "loop"
    /\ IF kill
       THEN /\ wk' = Exit(w, "done")
            /\ due' = (due /\ OthersRunning(w))
       ELSE LET t == RoundedClock IN
            IF PeriodicTriggers(t)
            THEN /\ wk' = EnterPass(w, "periodic", t % ACTIVE_MOD_MS)
                 /\ due' = FALSE
            ELSE /\ wk' = [wk EXCEPT ![w] = [@ EXCEPT !.pc = "active",
                                                       !.t_mod = t % ACTIVE_MOD_MS]]
                 /\ UNCHANGED due
    /\ UNCHANGED <<clock, shown, p_max, p_max_err, since_scan, p_r_t_rows, kill, periodic, active, tracking_cb,
                   max_pow_timer, max_pow_error, since_pass>>
    /\ UNCHANGED <<acqVars, calcVars, scanVars>>

\* the active strategy
ActiveCheck(w) ==
    /\ wk[w].pc = "active"
    /\ wk' = IF ActiveTriggers(wk[w].t_mod)
             THEN EnterPass(w, "active", 0)
             ELSE [wk EXCEPT ![w] = [@ EXCEPT !.pc = "confirm", !.t_mod = 0]]
    /\ UNCHANGED <<clock, shown, p_max, p_max_err, since_scan, p_r_t_rows, kill, periodic, active, tracking_cb,
                   max_pow_timer, max_pow_error, since_pass, due>>
    /\ UNCHANGED <<acqVars, calcVars, scanVars>>

\* scan_for_max_power returns: self._time_of_last_power_scan = time(), then the
\* caller goes on after its call
PassReturns(w) ==
    /\ since_scan' = 0
    /\ since_pass' = 0
    /\ wk' = [wk EXCEPT ![w] = [@ EXCEPT
                 !.pc = IF wk[w].why = "periodic" THEN "active" ELSE "confirm",
                 !.why = "none", !.retries = 0, !.k = 0, !.p_rows = <<>>]]

\* except ValueError: scan_for_max_power(retries=retries - 1)
PassRetried(w, budget) ==
    /\ wk[w].retries > RETRIES - budget
    /\ wk' = [wk EXCEPT ![w] = [@ EXCEPT !.pc = "coarse", !.k = 0, !.p_rows = <<>>,
                                         !.retries = wk[w].retries - 1]]

DeviceErrorRetried(w) ==
    /\ max_pow_error' = TRUE
    /\ wk' = [wk EXCEPT ![w] = [@ EXCEPT !.pc = "coarse", !.k = 0, !.p_rows = <<>>,
                                         !.retries = wk[w].retries - 1,
                                         !.failed = TRUE]]
    /\ UNCHANGED <<since_scan, since_pass>>

\* except (VisaIOError, SerialException) as e: on_error(e); then the pass returns
DeviceErrorInPass(w) ==
    /\ max_pow_error' = TRUE
    /\ since_scan' = 0
    /\ since_pass' = 0
    /\ wk' = [wk EXCEPT ![w] = [@ EXCEPT
                 !.pc = IF wk[w].why = "periodic" THEN "active" ELSE "confirm",
                 !.why = "none", !.retries = 0, !.k = 0, !.p_rows = <<>>,
                 !.failed = TRUE]]

\* for i in range(len(p)): if p[i] > p_max: p_max = p[i]; y_max = arbt_arr[i]
RECURSIVE MaxLoop(_, _, _, _)
MaxLoop(p, arbt_arr, i, best) ==
    IF i > Len(p) THEN best
    ELSE MaxLoop(p, arbt_arr, i + 1,
                 IF p[i] > best.p_max THEN [p_max |-> p[i], y_max |-> arbt_arr[i]]
                 ELSE best)

\* p_max, y_max = 0, 0 before the loop
maximum_for_p_and(p, arbt_arr) == MaxLoop(p, arbt_arr, 1, [p_max |-> 0, y_max |-> 0])

\* maximum_for_p(p, arbt_arr).p_max: the first strictly greater value wins, from 0
RECURSIVE MaxFrom(_, _)
MaxFrom(p, best) ==
    IF p = <<>> THEN best
    ELSE MaxFrom(Tail(p), IF Head(p) > best THEN Head(p) ELSE best)

maximum_for_p(p) == MaxFrom(p, 0)

\* one measurement of a sweep of the pass: measure, append to the window, prune
SweepStep(w) ==
    /\ wk[w].pc \in {"coarse", "fine"}
    /\ wk[w].k < SweepLen
    /\ \/ \E p \in PVals :
             /\ Len(Recorded(p)) <= MaxRows
             /\ p_r_t_rows' = Recorded(p)
             /\ wk' = [wk EXCEPT ![w] = [@ EXCEPT !.k = wk[w].k + 1,
                                                  !.p_rows = Append(@, p)]]
             /\ UNCHANGED <<since_scan, since_pass, max_pow_error>>
       \/ /\ DeviceErrorInPass(w)           \* VisaIOError, SerialException
          /\ UNCHANGED p_r_t_rows
    /\ UNCHANGED <<clock, shown, p_max, p_max_err, kill, periodic, active, tracking_cb, max_pow_timer, due>>
    /\ UNCHANGED <<acqVars, calcVars, scanVars>>

\* the p_err of a measured point
PErr == 1

SweepGoesOnStoring(w, budget) ==
    /\ wk[w].pc \in {"coarse", "fine"}
    /\ wk[w].k = SweepLen
    /\ \/ /\ DeviceErrorInPass(w)
          /\ p_max' = maximum_for_p(wk[w].p_rows)
          /\ p_max_err' = maximum_for_p_and(wk[w].p_rows,
                              [j \in 1..Len(wk[w].p_rows) |-> PErr]).y_max
       \/ /\ wk[w].pc = "coarse"
          /\ wk' = [wk EXCEPT ![w] = [@ EXCEPT !.pc = "fine", !.k = 0, !.p_rows = <<>>]]
          /\ UNCHANGED <<since_scan, since_pass, max_pow_error, p_max, p_max_err>>
       \/ /\ PassRetried(w, budget)
          /\ UNCHANGED <<since_scan, since_pass, max_pow_error, p_max, p_max_err>>
    /\ UNCHANGED <<clock, shown, p_r_t_rows, kill, periodic, active,
                   tracking_cb, max_pow_timer, due>>
    /\ UNCHANGED <<acqVars, calcVars, scanVars>>

\* the end of a sweep: the generator resets the output; after the coarse sweep
\* v_out_of_mosfet_sweetspot
SweepGoesOn(w, budget) ==
    /\ wk[w].pc \in {"coarse", "fine"}
    /\ wk[w].k = SweepLen
    /\ \/ DeviceErrorInPass(w)              \* set_output_voltage(CH_VOUT, 0) fails
       \/ /\ wk[w].pc = "coarse"
          /\ wk' = [wk EXCEPT ![w] = [@ EXCEPT !.pc = "fine", !.k = 0, !.p_rows = <<>>]]
          /\ UNCHANGED <<since_scan, since_pass, max_pow_error>>
       \/ /\ PassRetried(w, budget)         \* ValueError, e.g. "No sweetspot found!"
          /\ UNCHANGED <<since_scan, since_pass, max_pow_error>>
    /\ UNCHANGED <<clock, shown, p_max, p_max_err, p_r_t_rows, kill, periodic, active,
                   tracking_cb, max_pow_timer, due>>
    /\ UNCHANGED <<acqVars, calcVars, scanVars>>

\* after the fine sweep maximum_for_p, as the tracker thread alone sees it
FineSweepStores(w) ==
    /\ wk[w].pc = "fine"
    /\ wk[w].k = SweepLen
    /\ p_max' = maximum_for_p(wk[w].p_rows)
    /\ p_max_err' = maximum_for_p_and(wk[w].p_rows, [j \in 1..Len(wk[w].p_rows) |-> PErr]).y_max
    /\ PassReturns(w)
    /\ UNCHANGED <<clock, shown, p_r_t_rows, kill, periodic, active,
                   tracking_cb, max_pow_timer, max_pow_error, due>>
    /\ UNCHANGED <<acqVars, calcVars, scanVars>>

SweepEnd(w, budget) ==
    \/ SweepGoesOn(w, budget)
    \/ FineSweepStores(w)

\* the same in its statements: self.p_max, self.r_max = maximum_for_p(...)
FineSweepStoresMax(w) ==
    /\ wk[w].pc = "fine"
    /\ wk[w].k = SweepLen
    /\ p_max' = maximum_for_p(wk[w].p_rows)
    /\ wk' = [wk EXCEPT ![w].pc = "store_err"]
    /\ UNCHANGED <<clock, shown, p_max_err, since_scan, since_pass, p_r_t_rows, kill,
                   periodic, active, tracking_cb, max_pow_timer, max_pow_error, due>>
    /\ UNCHANGED <<acqVars, calcVars, scanVars>>

\* _, self.p_max_err = maximum_for_p(p_rows, p_err_rows) and the two after it
FineSweepStoresErr(w) ==
    /\ wk[w].pc = "store_err"
    /\ p_max_err' = maximum_for_p_and(wk[w].p_rows, [j \in 1..Len(wk[w].p_rows) |-> PErr]).y_max
    /\ PassReturns(w)
    /\ UNCHANGED <<clock, shown, p_max, p_r_t_rows, kill, periodic, active,
                   tracking_cb, max_pow_timer, max_pow_error, due>>
    /\ UNCHANGED <<acqVars, calcVars, scanVars>>

\* max_pow_timer_tick without an error pending: the text shown is made from
\* self.exp.p_max, self.exp.p_max_err, self.exp.r_max, self.exp.r_max_err
MaxPowTimerReads ==
    /\ max_pow_timer
    /\ ~max_pow_error
    /\ shown' = [read |-> TRUE, p_max |-> p_max, p_max_err |-> p_max_err]
    /\ UNCHANGED <<clock, p_max, p_max_err, since_scan, since_pass, p_r_t_rows, kill,
                   periodic, active, tracking_cb, max_pow_timer, max_pow_error, wk, due>>
    /\ UNCHANGED <<acqVars, calcVars, scanVars>>

\* the passive measurement at self._max_p_v_out
Confirm(w) ==
    /\ wk[w].pc = "confirm"
    /\ \/ \E p \in PVals :
             /\ Len(Recorded(p)) <= MaxRows
             /\ p_r_t_rows' = Recorded(p)
             /\ UNCHANGED max_pow_error
       \/ /\ max_pow_error' = TRUE          \* VisaIOError, SerialException
          /\ UNCHANGED p_r_t_rows
       \/ UNCHANGED <<p_r_t_rows, max_pow_error>>   \* ValueError: print(e); pass
    /\ wk' = [wk EXCEPT ![w] = [@ EXCEPT !.pc = "loop", !.failed = FALSE]]
    /\ UNCHANGED <<clock, shown, p_max, p_max_err, since_scan, kill, periodic, active, tracking_cb, max_pow_timer, since_pass, due>>
    /\ UNCHANGED <<acqVars, calcVars, scanVars>>

\* The passive measurement seen by two threads: the tuple of
\* `self.p_r_t_rows.append((p, p_err, r, r_err, time()))` is built, time() read,
\* before append is called, and another thread may run in between.  Where two
\* threads fill the window an entry carries the history field `by`, the
\* statement that appended it: "passive" or "sweep".
ConfirmStamp(w) ==
    /\ wk[w].pc = "confirm"
    /\ \/ /\ wk' = [wk EXCEPT ![w] = [@ EXCEPT !.pc = "append", !.stamp = 0]]
          /\ UNCHANGED max_pow_error
       \/ /\ max_pow_error' = TRUE          \* VisaIOError, SerialException
          /\ wk' = [wk EXCEPT ![w] = [@ EXCEPT !.pc = "loop", !.failed = FALSE]]
       \/ /\ UNCHANGED max_pow_error        \* ValueError: print(e); pass
          /\ wk' = [wk EXCEPT ![w] = [@ EXCEPT !.pc = "loop", !.failed = FALSE]]
    /\ UNCHANGED <<clock, shown, p_max, p_max_err, p_r_t_rows, since_scan, kill, periodic, active,
                   tracking_cb, max_pow_timer, since_pass, due>>
    /\ UNCHANGED <<acqVars, calcVars, scanVars>>

\* the call of append with the tuple built before, then pop_old_p_r_t_measurements
ConfirmAppend(w) ==
    /\ wk[w].pc = "append"
    /\ \E p \in PVals :
          LET rows == pop_old_p_r_t_measurements(
                          Append(p_r_t_rows, [p |-> p, age |-> wk[w].stamp,
                                              by |-> "passive"])).rows
          IN  /\ Len(rows) <= MaxRows + 1
              /\ p_r_t_rows' = rows
    /\ wk' = [wk EXCEPT ![w] = [@ EXCEPT !.pc = "loop", !.failed = FALSE,
                                         !.stamp = 0 - 1]]
    /\ UNCHANGED <<clock, shown, p_max, p_max_err, since_scan, kill, periodic, active, tracking_cb,
                   max_pow_timer, max_pow_error, since_pass, due>>
    /\ UNCHANGED <<acqVars, calcVars, scanVars>>

\* one measurement of a sweep of the pass, seen beside a second thread
SweepStepBeside(w) ==
    /\ wk[w].pc \in {"coarse", "fine"}
    /\ wk[w].k < SweepLen
    /\ \/ \E p \in PVals :
             LET rows == pop_old_p_r_t_measurements(
                             Append(p_r_t_rows, [p |-> p, age |-> 0,
                                                 by |-> "sweep"])).rows
             IN  /\ Len(rows) <= MaxRows + 2
                 /\ p_r_t_rows' = rows
                 /\ wk' = [wk EXCEPT ![w] = [@ EXCEPT !.k = wk[w].k + 1,
                                                      !.p_rows = Append(@, p)]]
                 /\ UNCHANGED <<since_scan, since_pass, max_pow_error>>
       \/ /\ DeviceErrorInPass(w)           \* VisaIOError, SerialException
          /\ UNCHANGED p_r_t_rows
    /\ UNCHANGED <<clock, shown, p_max, p_max_err, kill, periodic, active, tracking_cb, max_pow_timer, due>>
    /\ UNCHANGED <<acqVars, calcVars, scanVars>>

\* ---------------------------------------------------------------- time
Tick ==
    /\ clock' = (clock + TickMs) % PERIOD_MS
    /\ since_scan' = Min(since_scan + TickMs, CapAfter(GATE_MS))
    /\ since_pass' = Min(since_pass + TickMs, CapAfter(GATE_MS))
    /\ p_r_t_rows' = [j \in 1..Len(p_r_t_rows) |->
                         [p_r_t_rows[j] EXCEPT !.age = Min(@ + TickMs, CapAfter(RETAIN_MS))]]
    /\ due' = (due \/ (clock' = 0 /\ periodic /\ \E w \in Slots : Running(w)))
    /\ wk' = [w \in Slots |->
                 IF wk[w].stamp < 0 THEN wk[w]
                 ELSE [wk[w] EXCEPT !.stamp = Min(@ + TickMs, CapAfter(RETAIN_MS))]]
    /\ UNCHANGED <<kill, periodic, active, tracking_cb, max_pow_timer, max_pow_error,
                   p_max, p_max_err, shown>>
    /\ UNCHANGED <<acqVars, calcVars, scanVars>>

\* max_pow_timer_tick has not run yet
NotRead == [read |-> FALSE, p_max |-> 0, p_max_err |-> 0]

\* Experiment.__init__ and UserInterface.__init__
TrackerInit ==
    /\ clock = 0
    /\ since_scan = 0
    /\ since_pass = CapAfter(GATE_MS)
    /\ p_r_t_rows = <<>>
    /\ kill = FALSE
    /\ periodic = FALSE
    /\ active = TRUE
    /\ tracking_cb = FALSE
    /\ max_pow_timer = FALSE
    /\ max_pow_error = FALSE
    /\ wk = [w \in Slots |-> NoThread]
    /\ p_max = 0
    /\ p_max_err = 0
    /\ shown = NotRead
    /\ due = FALSE

AcqUnused ==
    /\ kind = "solar"
    /\ mode = "none"
    /\ args = [start |-> 0, end |-> 0, step |-> 0, repeat |-> 0]
    /\ scan_pc = "none"
    /\ scan_k = 0
    /\ yielded = <<>>
    /\ meas_pc = "idle"
    /\ meas_v = 0
    /\ meas_left = 0
    /\ meas_samples = <<>>
    /\ meas_base = 0
    /\ dev_log = <<>>

TrackerNext(n, budget) ==
    \/ TrackingChecked(n)
    \/ TrackingUnchecked
    \/ StrategyToggled({"periodic", "active"})
    \/ MaxPowTimerTick
    \/ Tick
    \/ \E w \in Slots :
          \/ OpenDevice(w)
          \/ LoopHead(w)
          \/ ActiveCheck(w)
          \/ SweepStep(w)
          \/ SweepEnd(w, budget)
          \/ Confirm(w)

\* the tracker on its own: no measure or scan call of the other layer runs
NoResult == [done |-> FALSE]

CalcUnused ==
    /\ fn = "none"
    /\ fn_in = <<>>
    /\ fn_out = NoResult

\* no Experiment.scan thread has been started
NoWorker == [pc |-> "none", steps |-> 0, device |-> "none", errors |-> 0]

\* UserInterface.__init__: the Scan button is enabled, no timer runs,
\* scan_error = None, plot_in_progress = False
GuiIdle == [scan_btn |-> TRUE, scan_timer |-> FALSE,
            scan_error |-> FALSE, plot_in_progress |-> FALSE]

\* after the click on Scan: plot_in_progress = True, and in perform_scan
\* scan_btn.setEnabled(False), start_scan, scan_timer.start(100)
GuiScanning == [scan_btn |-> FALSE, scan_timer |-> TRUE,
                scan_error |-> FALSE, plot_in_progress |-> TRUE]

\* on_error(e) of perform_scan: self.scan_error = e
ScanErrorCarried == [gui EXCEPT !.scan_error = TRUE]

ScanUnused ==
    /\ e_scanning = FALSE
    /\ sw = NoWorker
    /\ gui = GuiIdle

InitTracker == TrackerInit /\ AcqUnused /\ CalcUnused /\ ScanUnused

\* one tracker thread at a time, few ValueErrors per scan pass
SpecTracker ==
    /\ InitTracker
    /\ [][TrackerNext(1, MaxRetried)]_vars

\* one tracker thread at a time; the periodic checkbox keeps its initial state
\* (unchecked), the user toggles only the active one
ActiveOnlyNext ==
    \/ TrackingChecked(1)
    \/ TrackingUnchecked
    \/ StrategyToggled({"active"})
    \/ MaxPowTimerTick
    \/ Tick
    \/ \E w \in Slots :
          \/ OpenDevice(w)
          \/ LoopHead(w)
          \/ ActiveCheck(w)
          \/ SweepStep(w)
          \/ SweepEnd(w, MaxRetried)
          \/ Confirm(w)

SpecActive ==
    /\ InitTracker
    /\ [][ActiveOnlyNext]_vars

\* one tracker thread, ValueErrors without limit
SpecRetry ==
    /\ InitTracker
    /\ [][TrackerNext(1, RETRIES + 1)]_vars

\* tracking may be started again while the previous thread is still alive;
\* the strategy checkboxes and the error timer are left alone
RestartNext ==
    \/ TrackingChecked(2)
    \/ TrackingUnchecked
    \/ Tick
    \/ \E w \in Slots :
          \/ OpenDevice(w)
          \/ LoopHead(w)
          \/ ActiveCheck(w)
          \/ SweepStep(w)
          \/ SweepEnd(w, MaxRetried)
          \/ Confirm(w)

SpecRestart ==
    /\ InitTracker
    /\ [][RestartNext]_vars

\* Two tracker threads, the passive measurement in its two steps, over the
\* first ticks after construction: no strategy starts a scan pass before
\* time() - self._time_of_last_power_scan exceeds 2 s.
RaceTick ==
    /\ clock < MaxRaceTicks * TickMs
    /\ Tick

RaceNext ==
    \/ TrackingChecked(2)
    \/ TrackingUnchecked
    \/ RaceTick
    \/ \E w \in Slots :
          \/ OpenDevice(w)
          \/ LoopHead(w)
          \/ ActiveCheck(w)
          \/ ConfirmStamp(w)
          \/ ConfirmAppend(w)

SpecRace ==
    /\ InitTracker
    /\ [][RaceNext]_vars

\* Two tracker threads over the first seconds after construction, long enough
\* for the active strategy of one of them to start a scan pass.
BesideTick ==
    /\ clock < MaxBesideTicks * TickMs
    /\ Tick

BesideNext ==
    \/ TrackingChecked(2)
    \/ TrackingUnchecked
    \/ BesideTick
    \/ \E w \in Slots :
          \/ OpenDevice(w)
          \/ LoopHead(w)
          \/ ActiveCheck(w)
          \/ SweepStepBeside(w)
          \/ SweepEnd(w, MaxRetried)
          \/ ConfirmStamp(w)
          \/ ConfirmAppend(w)

SpecBeside ==
    /\ InitTracker
    /\ [][BesideNext]_vars

\* one tracker thread and the GUI timer that shows the maximum; the user may
\* tick the periodic checkbox
TearNext ==
    \/ TrackingChecked(1)
    \/ TrackingUnchecked
    \/ StrategyToggled({"periodic"})
    \/ MaxPowTimerReads
    \/ Tick
    \/ \E w \in Slots :
          \/ OpenDevice(w)
          \/ LoopHead(w)
          \/ ActiveCheck(w)
          \/ SweepStep(w)
          \/ SweepGoesOn(w, MaxRetried)
          \/ FineSweepStoresMax(w)
          \/ FineSweepStoresErr(w)
          \/ Confirm(w)

SpecTear ==
    /\ InitTracker
    /\ [][TearNext]_vars


\* ------------------------------------------------------- specification
Volts == (0 - 1)..MaxVolt
Steps == (0 - 1)..2
Repeats == 0..MaxRepeat

Init ==
    /\ TrackerInit /\ CalcUnused /\ ScanUnused
    /\ kind \in {"solar", "diode"}
    /\ mode \in {"measure", "scan"}
    /\ dev_log = <<>>
    /\ yielded = <<>>
    /\ scan_k = 0
    /\ meas_samples = <<>>
    /\ meas_base = 0
    /\ \/ /\ mode = "scan"
          /\ args \in [start : Volts, end : Volts, step : Steps, repeat : Repeats]
          /\ scan_pc = "created"
          /\ meas_pc = "idle"
          /\ meas_v = 0
          /\ meas_left = 0
       \/ /\ mode = "measure"
          /\ \E v \in Volts, r \in Repeats :
                /\ args = [start |-> v, end |-> v, step |-> 0, repeat |-> r]
                /\ meas_v = v
                /\ meas_left = r
          /\ scan_pc = "none"
          /\ meas_pc = "entered"

Next ==
    \/ MeasureSetOutput
    \/ MeasureSample
    \/ MeasureReturn
    \/ ScanBegin
    \/ ScanNextPoint
    \/ ScanYield
    \/ ScanRaise
    \/ ScanReset

Spec == Init /\ [][Next]_vars

\* ------------------------------------------- single calls of functions
\* ages (ms) and powers the entries of an argument window are drawn from
WinAges == {0, 500, 1000, 1500, 2000, 8000, 9000}
WinPowers == {0, 10, 30}
WinRows == [p : WinPowers, age : WinAges]

\* windows in the order of their timestamps: the oldest entry first
Windows ==
    {rows \in UNION {[1..l -> WinRows] : l \in 0..MaxWindow} :
        \A j \in 1..(Len(rows) - 1) : rows[j].age >= rows[j + 1].age}

\* the time ranges asked for, as (time() - t_end, time() - t_start)
TimeRanges == {<<0, WINDOW_MS>>, <<WINDOW_MS, 2 * WINDOW_MS>>, <<500, RETAIN_MS>>,
               <<2 * WINDOW_MS, WINDOW_MS>>}

\* self.pop_old_p_r_t_measurements() on a window
PruneCall ==
    /\ fn = "prune" /\ ~fn_out.done
    /\ fn_out' = [done |-> TRUE, res |-> pop_old_p_r_t_measurements(fn_in.rows)]
    /\ UNCHANGED <<fn, fn_in, acqVars, trkVars, scanVars>>

\* self.mean_power_in_time_range(t_start, t_end) on a window
MeanCall ==
    /\ fn = "mean" /\ ~fn_out.done
    /\ fn_out' = [done |-> TRUE,
                  mean |-> mean_power_in_time_range(fn_in.rows, fn_in.age_min, fn_in.age_max),
                  rows |-> fn_in.rows]
    /\ UNCHANGED <<fn, fn_in, acqVars, trkVars, scanVars>>

\* ---- v_out_of_mosfet_sweetspot: voltages in tenths of a volt, the voltage
\* across the mosfet in units of 0.2 V
USamples == {1, 5}
VStarts == {0, 10}
VSteps == {1, 5}
SWEETSPOT_BACK == 5       \* return v_out[i] - 0.5, v_out[i]

Series ==
    UNION {{[v_out |-> [j \in 1..n |-> v0 + (j - 1) * dv], u |-> u] :
               v0 \in VStarts, dv \in VSteps, u \in [1..n -> USamples]} :
           n \in 1..MaxSeries}

RECURSIVE SumSq(_)
SumSq(u) == IF u = <<>> THEN 0 ELSE Head(u) * Head(u) + SumSq(Tail(u))

\* int(round(len(u) * 0.1)): round() takes a half to the even integer
window_len(n) ==
    LET q == n \div 10
        r == n % 10
    IN  IF r < 5 THEN q
        ELSE IF r > 5 THEN q + 1
        ELSE IF q % 2 = 0 THEN q ELSE q + 1

\* np.abs(last_u - u[i]) > u_rms with u_rms = np.sqrt(np.mean(u ** 2)),
\* both sides squared and multiplied by len(u); i counts from 0
ExceedsRms(u, i) ==
    (u[1] - u[i + 1]) * (u[1] - u[i + 1]) * Len(u) > SumSq(u)

\* for i in range(window_len, len(v_out), window_len), from index i on
RECURSIVE WalkBlocks(_, _, _, _)
WalkBlocks(v_out, u, i, step) ==
    IF i >= Len(v_out) THEN [status |-> "no_sweetspot"]
    ELSE IF ExceedsRms(u, i)
         THEN [status |-> "window", start |-> v_out[i + 1] - SWEETSPOT_BACK,
               end |-> v_out[i + 1]]
         ELSE WalkBlocks(v_out, u, i + step, step)

\* range() with a step of zero raises ValueError("range() arg 3 must not be zero")
v_out_of_mosfet_sweetspot(v_out, u) ==
    IF window_len(Len(u)) = 0 THEN [status |-> "range_error"]
    ELSE WalkBlocks(v_out, u, window_len(Len(u)), window_len(Len(u)))

SweetspotCall ==
    /\ fn = "sweetspot" /\ ~fn_out.done
    /\ fn_out' = [done |-> TRUE, res |-> v_out_of_mosfet_sweetspot(fn_in.v_out, fn_in.u)]
    /\ UNCHANGED <<fn, fn_in, acqVars, trkVars, scanVars>>

\* ---- measure_u_i_r: the values it returns.  Readings are in volts, currents
\* in units of 1 V / 4.7 Ohm and resistances in units of 4.7 Ohm, so that the
\* shunt is 1.  A number is a fraction [n, d] with d > 0, or +infinity (d = 0);
\* an uncertainty is kept as its square.
Readings == {0, 1, 3}     \* the dummy returns np.random.randint(33) / 10
SPLITTER == 3             \* get_input_voltage(CH_U1) * 3.0
SHUNT == 1                \* 4.7 Ohm in units of 4.7 Ohm

RECURSIVE GCD(_, _)
GCD(a, b) == IF b = 0 THEN a ELSE GCD(b, a % b)

Frac(n, d) ==
    LET g == GCD(Abs(n), d)
    IN  IF g = 0 THEN [n |-> 0, d |-> 1] ELSE [n |-> n \div g, d |-> d \div g]
Inf == [n |-> 1, d |-> 0]
IsInf(x) == x.d = 0
FAdd(x, y) == IF IsInf(x) \/ IsInf(y) THEN Inf
              ELSE Frac(x.n * y.d + y.n * x.d, x.d * y.d)
FSub(x, y) == Frac(x.n * y.d - y.n * x.d, x.d * y.d)
FMul(x, y) == Frac(x.n * y.n, x.d * y.d)
FOver(x, k) == IF IsInf(x) THEN Inf ELSE Frac(x.n, x.d * k)

RECURSIVE FSum(_)
FSum(values) == IF values = <<>> THEN Frac(0, 1)
                ELSE FAdd(Head(values), FSum(Tail(values)))

\* np.mean(values)
FMean(values) == FOver(FSum(values), Len(values))

MeanSquare(values) ==
    FMean([j \in 1..Len(values) |-> FMul(values[j], values[j])])

\* np.std(values) ** 2: the mean squared deviation from the mean
PopVariance(values) ==
    FMean([j \in 1..Len(values) |->
              FMul(FSub(values[j], FMean(values)), FSub(values[j], FMean(values)))])

\* value_with_uncertainty(values): (mean, sem), the sem squared
value_with_uncertainty(values) ==
    IF \E j \in 1..Len(values) : IsInf(values[j])
    THEN [mean |-> FMean(values), sem2 |-> Inf]
    ELSE [mean |-> FMean(values), sem2 |-> FOver(PopVariance(values), Len(values))]

ResistanceAlwaysFinite(Upv, U2) == Frac(Abs(Upv - U2) + SHUNT * U2, IF U2 = 0 THEN 1 ELSE U2)

\* if Ipv: np.abs((Upv - U2) / Ipv) + 4.7 else np.inf, with Ipv = U2 / 4.7
Resistance(Upv, U2) ==
    IF U2 # 0 THEN FAdd(Frac(Abs(Upv - U2) * SHUNT, U2), Frac(SHUNT, 1)) ELSE Inf

\* one (Upv, Ipv, resistance) of __recursive_u_i_r_measurement
UIR(rd) == [u |-> Frac(SPLITTER * rd.u1, 1),
            i |-> Frac(rd.u2, SHUNT),
            r |-> Resistance(SPLITTER * rd.u1, rd.u2)]

\* what measure_u_i_r returns for the readings of its samples
measure_values(readings) ==
    [u |-> value_with_uncertainty([j \in 1..Len(readings) |-> UIR(readings[j]).u]),
     i |-> value_with_uncertainty([j \in 1..Len(readings) |-> UIR(readings[j]).i]),
     r |-> value_with_uncertainty([j \in 1..Len(readings) |-> UIR(readings[j]).r])]

MeasureValuesCall ==
    /\ fn = "measure" /\ ~fn_out.done
    /\ fn_out' = [done |-> TRUE, res |-> measure_values(fn_in.readings)]
    /\ UNCHANGED <<fn, fn_in, acqVars, trkVars, scanVars>>

\* ---- maximum_for_p(p, arbt_arr): both values it returns
SweepPowers == {0, 5, 10}     \* p = u * i of a sweep point, never negative
SweepOthers == {3, 7}         \* the r, p_err, r_err or v_out of a sweep point

MaximumCall ==
    /\ fn = "maximum" /\ ~fn_out.done
    /\ fn_out' = [done |-> TRUE, res |-> maximum_for_p_and(fn_in.p, fn_in.arbt_arr)]
    /\ UNCHANGED <<fn, fn_in, acqVars, trkVars, scanVars>>

\* ---- fit_u_i: the vectors it hands to lmfit's Model.fit.  A current is
\* finite, NaN or infinite; an uncertainty is also told apart by being 0.
CurrentKinds == {"finite", "nan", "inf"}
ErrKinds == {"zero", "finite", "nan", "inf"}

\* not np.isnan(x) and not np.isinf(x)
IsClean(x) == x \notin {"nan", "inf"}

\* 1 / i_err, element by element as numpy divides
WeightOf(e) ==
    CASE e = "zero" -> "inf"
      [] e = "finite" -> "finite"
      [] e = "inf" -> "zero"
      [] OTHER -> "nan"

\* the loop over range(len(u)) that fills _u, _i, _i_err: the indices kept
RECURSIVE CleanFrom(_, _, _)
CleanFrom(i, i_err, j) ==
    IF j > Len(i) THEN <<>>
    ELSE IF IsClean(i[j]) /\ IsClean(i_err[j])
         THEN <<j>> \o CleanFrom(i, i_err, j + 1)
         ELSE CleanFrom(i, i_err, j + 1)

\* m.fit(_i, U=_u, params=params, weights=1 / i_err): each element with the
\* index of the input it comes from
fit_u_i(i, i_err) ==
    LET kept == CleanFrom(i, i_err, 1)
    IN  [data |-> [k \in 1..Len(kept) |-> [idx |-> kept[k], val |-> i[kept[k]]]],
         U |-> kept,
         weights |-> [j \in 1..Len(i_err) |-> [idx |-> j, val |-> WeightOf(i_err[j])]]]

FitCall ==
    /\ fn = "fit_u_i" /\ ~fn_out.done
    /\ fn_out' = [done |-> TRUE, res |-> fit_u_i(fn_in.i, fn_in.i_err)]
    /\ UNCHANGED <<fn, fn_in, acqVars, trkVars, scanVars>>

\* ---- p_for_u_i: p and the square of p_err, on small integers
PowerInputs == [u : 1..MaxVolt, u_err : 0..1, i : 1..MaxVolt, i_err : 0..1]

\* p = u * i; p_err = p * np.sqrt(u_err ** 2 + i_err ** 2)
p_for_u_i(u, u_err, i, i_err) ==
    [p |-> u * i, p_err2 |-> (u * i) * (u * i) * (u_err * u_err + i_err * i_err)]

PowerCall ==
    /\ fn = "p_for_u_i" /\ ~fn_out.done
    /\ fn_out' = [done |-> TRUE,
                  res |-> p_for_u_i(fn_in.u, fn_in.u_err, fn_in.i, fn_in.i_err)]
    /\ UNCHANGED <<fn, fn_in, acqVars, trkVars, scanVars>>

InitCalc ==
    /\ TrackerInit /\ AcqUnused /\ ScanUnused
    /\ fn_out = NoResult
    /\ \/ /\ fn = "prune"
          /\ \E rows \in Windows : fn_in = [rows |-> rows]
       \/ /\ fn = "mean"
          /\ \E rows \in Windows, r \in TimeRanges :
                fn_in = [rows |-> rows, age_min |-> r[1], age_max |-> r[2]]
       \/ /\ fn = "sweetspot"
          /\ fn_in \in Series
       \/ /\ fn = "maximum"
          /\ \E n \in 1..MaxPoints :
                \E pp \in [1..n -> SweepPowers], yy \in [1..n -> SweepOthers] :
                   fn_in = [p |-> pp, arbt_arr |-> yy]
       \/ /\ fn = "fit_u_i"
          /\ \E n \in 1..MaxPoints :
                \E ii \in [1..n -> CurrentKinds], ee \in [1..n -> ErrKinds] :
                   fn_in = [i |-> ii, i_err |-> ee]
       \/ /\ fn = "p_for_u_i"
          /\ fn_in \in PowerInputs
       \/ /\ fn = "measure"
          /\ \E n \in 1..MaxRepeat :
                \E readings \in [1..n -> [u1 : Readings, u2 : Readings]] :
                   fn_in = [readings |-> readings]

CalcNext ==
    \/ PruneCall
    \/ MeanCall
    \/ SweetspotCall
    \/ MeasureValuesCall
    \/ MaximumCall
    \/ FitCall
    \/ PowerCall

SpecCalc == InitCalc /\ [][CalcNext]_vars

\* ------------------------------------------------- Experiment.scan
\* The thread start_scan starts: it runs the sweep generator of the model
\* class (the actions of Next) between opening and leaving the device.
StepCounts == (0 - 1)..2

\* ArduinoVISADevice defines no close_device method
HasCloseDevice == FALSE

\* SolarCellExperiment.__exit__ / DiodeExperiment.__exit__:
\* try: self.visa.close_device() except AttributeError: pass
ExitContext(device) == IF HasCloseDevice THEN "closed" ELSE device

\* e_scanning.set(); self.rows = []
WorkerSetEvent ==
    /\ sw.pc = "started"
    /\ e_scanning' = TRUE
    /\ sw' = [sw EXCEPT !.pc = "open"]
    /\ UNCHANGED <<gui, acqVars, trkVars, calcVars>>

\* with SolarCellExperiment(port) as m: the outer try catches SerialException
\* only, a VisaIOError of open_resource leaves the thread
WorkerOpenDevice ==
    /\ sw.pc = "open"
    /\ \/ /\ sw' = [sw EXCEPT !.pc = "step_size", !.device = "open"]
          /\ UNCHANGED gui
       \/ /\ sw' = [sw EXCEPT !.pc = "clear", !.errors = @ + 1]
          /\ gui' = ScanErrorCarried
       \/ /\ sw' = [sw EXCEPT !.pc = "uncaught"]
          /\ UNCHANGED gui
    /\ UNCHANGED <<e_scanning, acqVars, trkVars, calcVars>>

\* step_size = (end - start) / steps, then the call of the generator function
WorkerStepSize ==
    /\ sw.pc = "step_size"
    /\ \/ /\ sw.steps = 0
          /\ sw' = [sw EXCEPT !.pc = "uncaught", !.device = ExitContext(@)]
          /\ UNCHANGED <<args, scan_pc>>
       \/ /\ sw.steps # 0
          /\ args' = [args EXCEPT !.step = (args.end - args.start) \div sw.steps]
          /\ scan_pc' = "created"
          /\ sw' = [sw EXCEPT !.pc = "sweep"]
    /\ UNCHANGED <<kind, mode, scan_k, yielded, meas_pc, meas_v, meas_left,
                   meas_samples, meas_base, dev_log, e_scanning, gui, trkVars, calcVars>>

\* the for loop ends or an exception leaves it: (VisaIOError, SerialException)
\* are caught and passed to on_error, the with block is left through __exit__
WorkerLeavesSweep ==
    /\ sw.pc = "sweep"
    /\ \/ /\ scan_pc = "done"
          /\ sw' = [sw EXCEPT !.pc = "clear", !.device = ExitContext(@)]
          /\ UNCHANGED gui
       \/ /\ scan_pc = "DeviceError"
          /\ sw' = [sw EXCEPT !.pc = "clear", !.device = ExitContext(@), !.errors = @ + 1]
          /\ gui' = ScanErrorCarried
       \/ /\ scan_pc \in {"ValueError", "ArangeError"}
          /\ sw' = [sw EXCEPT !.pc = "uncaught", !.device = ExitContext(@)]
          /\ UNCHANGED gui
    /\ UNCHANGED <<e_scanning, acqVars, trkVars, calcVars>>

\* e_scanning.clear(), the last statement of scan
WorkerClearEvent ==
    /\ sw.pc = "clear"
    /\ e_scanning' = FALSE
    /\ sw' = [sw EXCEPT !.pc = "returned"]
    /\ UNCHANGED <<gui, acqVars, trkVars, calcVars>>

\* start_scan(port, start, end, steps, repeat, e_scanning, on_error) has
\* started the thread; (end - start) / steps is kept exact
InitScan ==
    /\ TrackerInit /\ CalcUnused
    /\ e_scanning = FALSE
    /\ gui = GuiScanning
    /\ kind \in {"solar", "diode"}
    /\ mode = "scan"
    /\ \E a \in Volts, b \in Volts, n \in StepCounts, r \in Repeats :
          /\ n # 0 => (b - a) % Abs(n) = 0
          /\ args = [start |-> a, end |-> b, step |-> 0, repeat |-> r]
          /\ sw = [pc |-> "started", steps |-> n, device |-> "none", errors |-> 0]
    /\ scan_pc = "none"
    /\ scan_k = 0
    /\ yielded = <<>>
    /\ meas_pc = "idle"
    /\ meas_v = 0
    /\ meas_left = 0
    /\ meas_samples = <<>>
    /\ meas_base = 0
    /\ dev_log = <<>>

ScanWorkerNext ==
    \/ WorkerSetEvent
    \/ WorkerOpenDevice
    \/ WorkerStepSize
    \/ WorkerLeavesSweep
    \/ WorkerClearEvent
    \/ Next

SpecScan == InitScan /\ [][ScanWorkerNext]_vars

\* scan_timer_tick, every 100 ms while the scan_timer runs: the buttons, the
\* timer, the error dialog, then update_plot (update_plot of the diode GUI
\* does the same to its button and its timer)
ScanTimerTick ==
    /\ gui.scan_timer
    /\ LET over == gui.scan_error \/ ~e_scanning
       IN  gui' = [scan_btn |-> (over \/ gui.scan_btn),
                   scan_timer |-> ~over,
                   scan_error |-> FALSE,
                   plot_in_progress |-> (gui.plot_in_progress /\ ~over)]
    /\ UNCHANGED <<e_scanning, sw, acqVars, trkVars, calcVars>>

\* the thread of Experiment.scan and the GUI timer that polls e_scanning
PollNext ==
    \/ ScanTimerTick
    \/ ScanWorkerNext

SpecPoll == InitScan /\ [][PollNext]_vars

\* ---------------------------------------- the sweep beside the tracker
\* what perform_scan reads from its input boxes, sanitised
GuiScanArgs == {[start |-> 1, end |-> e, step |-> 0, repeat |-> 1] : e \in {1, 2}}

\* the Scan button is clicked: perform_scan, start_scan
ScanClicked ==
    /\ gui.scan_btn
    /\ gui' = GuiScanning
    /\ sw' = [pc |-> "started", steps |-> 1, device |-> "none", errors |-> 0]
    /\ kind' = "solar"
    /\ mode' = "scan"
    /\ args' \in GuiScanArgs
    /\ scan_pc' = "none"
    /\ scan_k' = 0
    /\ yielded' = <<>>
    /\ meas_pc' = "idle"
    /\ meas_v' = 0
    /\ meas_left' = 0
    /\ meas_samples' = <<>>
    /\ meas_base' = 0
    /\ UNCHANGED <<dev_log, e_scanning, trkVars, calcVars>>

\* the user clicks Scan and ticks the tracking checkbox, in any order, over the
\* first ticks after construction
GuiNext ==
    \/ ScanClicked
    \/ ScanWorkerNext
    \/ TrackingChecked(1)
    \/ TrackingUnchecked
    \/ RaceTick
    \/ \E w \in Slots :
          \/ OpenDevice(w)
          \/ LoopHead(w)
          \/ ActiveCheck(w)
          \/ Confirm(w)

SpecGui ==
    /\ InitTracker
    /\ [][GuiNext]_vars

\* ------------------------------- the sweep after a passive measurement
\* The tracker's loop on the device: the passive measurement at
\* self._max_p_v_out, then, in a later iteration, scan_for_max_power, whose
\* coarse sweep is m.scan_u_i_r(start_voltage=0.0, ...).
COARSE_START == 0

\* the passive measurement has returned and a strategy calls scan_for_max_power
CoarseSweepFollows ==
    /\ mode = "measure"
    /\ meas_pc = "returned"
    /\ mode' = "scan"
    /\ \E e \in 1..MaxVolt, r \in 1..MaxRepeat :
          args' = [start |-> COARSE_START, end |-> e, step |-> 1, repeat |-> r]
    /\ scan_pc' = "created"
    /\ scan_k' = 0
    /\ yielded' = <<>>
    /\ meas_pc' = "idle"
    /\ meas_v' = 0
    /\ meas_left' = 0
    /\ meas_samples' = <<>>
    /\ meas_base' = Len(dev_log)
    /\ UNCHANGED <<kind, dev_log, trkVars, calcVars, scanVars>>

\* m.measure_u_i_r(output_voltage=self._max_p_v_out, repeat=...) has been called
InitFollow ==
    /\ TrackerInit /\ CalcUnused /\ ScanUnused
    /\ kind = "solar"
    /\ mode = "measure"
    /\ dev_log = <<>>
    /\ yielded = <<>>
    /\ scan_k = 0
    /\ meas_samples = <<>>
    /\ meas_base = 0
    /\ \E v \in 0..MaxVolt, r \in 1..MaxRepeat :
          /\ args = [start |-> v, end |-> v, step |-> 0, repeat |-> r]
          /\ meas_v = v
          /\ meas_left = r
    /\ scan_pc = "none"
    /\ meas_pc = "entered"

FollowNext ==
    \/ CoarseSweepFollows
    \/ Next

SpecFollow == InitFollow /\ [][FollowNext]_vars

\* ====================================================== claims on Spec
RowSetpoints == [j \in 1..Len(yielded) |-> yielded[j].v_out]

ResetCalls == {j \in 1..Len(dev_log) : dev_log[j] = SetCall(CH_VOUT, 0)}

\* number of setpoints start, start+step, ... up to and including the first >= end
FirstReach(a) ==
    CHOOSE n \in 1..(a.end - a.start + 1) :
        /\ a.start + (n - 1) * a.step >= a.end
        /\ \A m \in 1..(n - 1) : a.start + (m - 1) * a.step < a.end

C2_ReversedBoundsFailBeforeDeviceIO ==
    (mode = "scan" /\ args.start > args.end) =>
        /\ scan_pc \in {"created", "ValueError"}
        /\ dev_log = <<>>
        /\ yielded = <<>>

C2_Witness ==
    mode = "scan" /\ args.start > args.end /\ scan_pc = "ValueError"

\* C3: a sweep with step <= 0 (and start <= end) fails before any device
\* interaction: it yields nothing and issues no set_output_voltage call.
C3_NonPositiveStepFails ==
    (mode = "scan" /\ args.step <= 0 /\ args.start <= args.end) =>
        /\ scan_pc \in {"created", "ValueError", "ArangeError"}
        /\ yielded = <<>>
        /\ \A j \in 1..Len(dev_log) : dev_log[j].op # "set"

\* the device calls of the current measure call
MeasureCalls == SubSeq(dev_log, meas_base + 1, Len(dev_log))

C5_FirstActivityIsCoarseSweep ==
    [][\A w \in Slots :
          (wk[w].pc = "confirm" /\ wk'[w].pc = "loop") => wk[w].swept]_vars

\* C6: within one scan pass scan_for_max_power is re-attempted at most
\* RETRIES times.
C6_AtMostRetriesReattempts ==
    \A w \in Slots :
        wk[w].pc \in {"coarse", "fine"} => RETRIES - wk[w].retries <= RETRIES

\* C7: a tracker thread that was alive when stop_tracking_max_power_point was
\* called leaves the loop at its next `while` test.
C7_StoppedWorkerExitsAtNextTest ==
    [][\A w \in Slots :
          (wk[w].stop_req /\ wk[w].pc = "loop" /\ wk'[w].pc # "loop")
              => wk'[w].pc = "done"]_vars

\* C8: whenever the active strategy is evaluated while it is enabled, at least
\* 2 s have passed since the last scan and the two 1-s means differ by more
\* than 10 %, a scan pass starts.
C8_ActiveTriggersWheneverConditionsHold ==
    [][\A w \in Slots :
          (/\ wk[w].pc = "active" /\ wk'[w].pc # "active"
           /\ active
           /\ since_scan >= GATE_MS
           /\ PowerChanged(p_r_t_rows))
              => wk'[w].pc = "coarse"]_vars

\* C9: when the active strategy starts a scan pass, more than 2 s have passed
\* since a scan pass last completed.
C9_ActiveWaitsForGate ==
    [][\A w \in Slots :
          (wk[w].pc = "active" /\ wk'[w].pc = "coarse") => since_pass > GATE_MS]_vars

C9_Witness ==
    \E w \in Slots : wk[w].pc = "fine" /\ wk[w].why = "active" /\ wk[w].swept

\* C10: no periodic scan is skipped: a loop iteration that begins while
\* periodic tracking is enabled and a 7 s mark has gone by without a periodic
\* pass starts that pass.
C10_PeriodicNeverSkipped ==
    [][\A w \in Slots :
          (/\ wk[w].pc = "loop" /\ wk'[w].pc # "loop"
           /\ ~kill /\ periodic /\ due)
              => wk'[w].pc = "coarse"]_vars

InPass(w) == wk[w].pc \in {"coarse", "fine"}

\* C11 as stated: while both strategy flags are false no sweep measurement is
\* taken, no scan pass starts and p_max (with the fields set with it) stays as
\* it is.
C11_NoScanWhileBothFlagsOff ==
    [][(~periodic /\ ~active) =>
          /\ p_max' = p_max
          /\ \A w \in Slots : InPass(w) => wk'[w] = wk[w]
          /\ \A w \in Slots : ~InPass(w) => wk'[w].pc \notin {"coarse", "fine"}]_vars

\* C11 amended: a loop iteration that tests the strategy flags while both are
\* false starts no scan pass and goes on to the confirmation measurement, and
\* p_max changes only in the step that ends a fine sweep.
C11_IterationWithBothFlagsOffStartsNoPass ==
    [][/\ \A w \in Slots :
             (~periodic /\ ~active /\ wk[w].pc \in {"loop", "active"})
                 => wk'[w].pc \notin {"coarse", "fine"}
       /\ p_max' # p_max =>
             \E w \in Slots : wk[w].pc = "fine" /\ ~InPass(w)']_vars

C11_Witness ==
    /\ ~periodic /\ ~active
    /\ \E w \in Slots : wk[w].pc = "confirm" /\ wk[w].swept /\ wk[w].t_mod = 0
    /\ since_scan > GATE_MS
    /\ PowerChanged(p_r_t_rows)

\* C12: the step in which a device error ends a scan pass reports the error,
\* appends no measurement and leaves the pass; the thread does not enter a
\* scan pass again before the confirmation measurement of that iteration.
C12_DeviceErrorAbortsPassOnce ==
    [][\A w \in Slots :
          /\ (InPass(w) /\ ~wk[w].failed /\ wk'[w].failed) =>
                /\ max_pow_error'
                /\ p_r_t_rows' = p_r_t_rows
                /\ p_max' = p_max
                /\ ~InPass(w)'
          /\ wk[w].failed => ~InPass(w)']_vars

C12_Witness ==
    \E w \in Slots : wk[w].failed /\ wk[w].pc = "confirm" /\ max_pow_error

\* =========================================== claims on single calls
\* C13: pruning a timestamp-ordered window leaves exactly its entries whose
\* age is at most 8 s, and does not fail.
C13_PruneLeavesExactlyYoungEntries ==
    (fn = "prune" /\ fn_out.done) =>
        /\ ~fn_out.res.error
        /\ fn_out.res.rows = SelectSeq(fn_in.rows, LAMBDA r : r.age <= RETAIN_MS)

\* the sum of p over the entries of rows at the indices in S
RECURSIVE SumAt(_, _)
SumAt(rows, S) ==
    IF S = {} THEN 0
    ELSE LET j == CHOOSE x \in S : TRUE IN rows[j].p + SumAt(rows, S \ {j})

\* C14: mean_power_in_time_range returns the arithmetic mean of p over exactly
\* the entries whose timestamp lies strictly between the two bounds, 0.0 when
\* there is none, and leaves the window as it was.
C14_MeanOverStrictRange ==
    (fn = "mean" /\ fn_out.done) =>
        LET rows == fn_in.rows
            S == {j \in 1..Len(rows) :
                     fn_in.age_min < rows[j].age /\ rows[j].age < fn_in.age_max}
        IN  /\ S = {} => fn_out.mean = [sum |-> 0, n |-> 1]
            /\ S # {} => fn_out.mean = [sum |-> SumAt(rows, S), n |-> Cardinality(S)]
            /\ fn_out.rows = rows

C14_Witness ==
    /\ fn = "mean" /\ fn_out.done
    /\ fn_out.mean.n = 2 /\ fn_out.mean.sum = 40
    /\ \E j \in 1..Len(fn_in.rows) : fn_in.rows[j].age = fn_in.age_max

\* C15: for every non-empty series the function walks the block boundaries k
\* at multiples of 10 % of the series length and returns
\* (v_out[k] - 0.5, v_out[k]) for the first k with |u[0] - u[k]| > u_rms; when
\* no boundary exceeds the threshold it fails with "No sweetspot found!" and
\* with no other failure.
C15_FirstExceedingBoundaryOrNoSweetspot ==
    (fn = "sweetspot" /\ fn_out.done) =>
        LET u == fn_in.u
            n == Len(u)
            K == {k \in 1..(n - 1) :
                     /\ \E m \in 1..n : k = m * window_len(n)
                     /\ (u[1] - u[k + 1]) * (u[1] - u[k + 1]) * n > SumSq(u)}
        IN  IF K = {} THEN fn_out.res.status = "no_sweetspot"
            ELSE LET k == CHOOSE x \in K : \A y \in K : x <= y
                 IN  fn_out.res = [status |-> "window",
                                   start |-> fn_in.v_out[k + 1] - SWEETSPOT_BACK,
                                   end |-> fn_in.v_out[k + 1]]

\* u is 1.0 V below v_out = 2.0 V and 0.2 V from there on, and the sampled
\* range contains the step
StepSeries(in) ==
    /\ \A j \in 1..Len(in.u) : in.u[j] = (IF in.v_out[j] < 20 THEN 5 ELSE 1)
    /\ in.v_out[1] < 20
    /\ in.v_out[Len(in.v_out)] >= 20

\* C16: on a step series whose sampled range contains the step the function
\* returns a window, never "No sweetspot found!", whose v_out_end lies within
\* one block width of 2.0 V.
C16_StepSeriesYieldsWindowAtStep ==
    (fn = "sweetspot" /\ fn_out.done /\ StepSeries(fn_in)) =>
        /\ fn_out.res.status = "window"
        /\ Abs(fn_out.res.end - 20)
               <= window_len(Len(fn_in.u)) * (fn_in.v_out[2] - fn_in.v_out[1])

\* C17 as stated: for repeat = 1 the uncertainty of u, of i and of r is 0,
\* whatever the readings.
C17_SingleSampleHasNoUncertainty ==
    (fn = "measure" /\ fn_out.done /\ Len(fn_in.readings) = 1) =>
        /\ fn_out.res.u.sem2 = Frac(0, 1)
        /\ fn_out.res.i.sem2 = Frac(0, 1)
        /\ fn_out.res.r.sem2 = Frac(0, 1)

\* C17: for repeat = 1 the uncertainty of u and of i is 0, and the uncertainty
\* of r is 0 when the resistance is finite and +infinity when the current
\* reading is exactly 0 (the resistance is then +infinity).
C17_SingleSampleUncertaintyZeroOrInfinite ==
    (fn = "measure" /\ fn_out.done /\ Len(fn_in.readings) = 1) =>
        /\ fn_out.res.u.sem2 = Frac(0, 1)
        /\ fn_out.res.i.sem2 = Frac(0, 1)
        /\ fn_in.readings[1].u2 # 0 =>
               ~IsInf(fn_out.res.r.mean) /\ fn_out.res.r.sem2 = Frac(0, 1)
        /\ fn_in.readings[1].u2 = 0 =>
               IsInf(fn_out.res.r.mean) /\ IsInf(fn_out.res.r.sem2)

C17_Witness ==
    /\ fn = "measure" /\ fn_out.done /\ Len(fn_in.readings) = 1
    /\ fn_in.readings[1].u1 # 0 /\ fn_in.readings[1].u2 # 0
    /\ fn_out.res.r.sem2 = Frac(0, 1)

\* C18: whenever the aggregated current is exactly 0 the aggregated
\* resistance is +infinity, for every repeat and all readings.
C18_ZeroCurrentGivesInfiniteResistance ==
    (fn = "measure" /\ fn_out.done /\ fn_out.res.i.mean = Frac(0, 1)) =>
        IsInf(fn_out.res.r.mean)

C18_Witness ==
    /\ fn = "measure" /\ fn_out.done /\ Len(fn_in.readings) = MaxRepeat
    /\ fn_out.res.i.mean = Frac(0, 1)
    /\ \E j \in 1..Len(fn_in.readings) : fn_in.readings[j].u1 # 0
    /\ IsInf(fn_out.res.r.mean)

\* C19: whenever the aggregated current is not 0 the aggregated resistance
\* equals the aggregated voltage divided by the aggregated current.
C19_ResistanceIsVoltageOverCurrent ==
    (fn = "measure" /\ fn_out.done /\ fn_out.res.i.mean # Frac(0, 1)) =>
        fn_out.res.r.mean =
            Frac(fn_out.res.u.mean.n * fn_out.res.i.mean.d,
                 fn_out.res.u.mean.d * fn_out.res.i.mean.n)

\* ============================================= claims on Experiment.scan
\* C20: every started Experiment.scan thread clears e_scanning at its end, on
\* every outcome: a thread that has ended has left the event cleared.
C20_EndedWorkerHasClearedEvent ==
    sw.pc \in {"returned", "uncaught"} => ~e_scanning

\* ============================================ claims on the rolling window
Ordered(rows) == \A j \in 1..(Len(rows) - 1) : rows[j].age >= rows[j + 1].age

\* C22: the rolling window is ordered by non-decreasing timestamp in every
\* reachable state; a step appends at most one entry, at the newest end and not
\* older than the entries before it, and removes entries only from the oldest
\* end.
C22_WindowOrderedAppendNewestPruneOldest ==
    [][/\ Ordered(p_r_t_rows')
       /\ clock' = clock =>
             \E d \in 0..Len(p_r_t_rows) :
                LET kept == SubSeq(p_r_t_rows, d + 1, Len(p_r_t_rows))
                IN  \/ p_r_t_rows' = kept
                    \/ /\ Len(p_r_t_rows') = Len(kept) + 1
                       /\ SubSeq(p_r_t_rows', 1, Len(kept)) = kept]_vars

\* C23: after any sequence of start and stop calls at most one tracker thread
\* is running; a stop followed at once by a start does not leave the earlier
\* thread running beside the new one.
C23_AtMostOneTrackerThread ==
    Cardinality({w \in Slots : Alive(w)}) <= 1

\* C28: after a fine sweep p_max is the maximum power over its points and the
\* value stored with it (r_max, p_max_err, r_max_err, v_out_at_max) is the one
\* of the first point that attains the maximum, also when no point has
\* positive power.
C28_MaximumIsFirstPointOfMaximumPower ==
    (fn = "maximum" /\ fn_out.done) =>
        LET p == fn_in.p
            k == CHOOSE j \in 1..Len(p) :
                     /\ \A l \in 1..Len(p) : p[l] <= p[j]
                     /\ \A l \in 1..(j - 1) : p[l] < p[j]
        IN  /\ fn_out.res.p_max = p[k]
            /\ fn_out.res.y_max = fn_in.arbt_arr[k]

\* ======================================= claims on readers of the maximum
\* C24: whenever the GUI timer reads the maximum, the values it reads come
\* from one completed scan pass, or all from the initial state.
C24_ReaderSeesOnePass ==
    shown.read =>
        \/ shown.p_max = 0 /\ shown.p_max_err = 0
        \/ shown.p_max \in PVals /\ shown.p_max_err = PErr

\* ============================================ claims on the two workers
\* C25: over every sequence of user actions at most one of the sweep worker
\* and the tracker worker is using the instrument.
C25_OneWorkerUsesInstrument ==
    ~(sw.pc \in {"step_size", "sweep"} /\ \E w \in Slots : Running(w))

\* C26: whenever a background worker ends, normally or after an error, the
\* instrument connection it opened has been closed.
C26_EndedWorkerHasClosedDevice ==
    sw.pc \in {"clear", "returned", "uncaught"} => sw.device # "open"

\* the sweep of the worker was left by a device error of the measurement at
\* the setpoint of index scan_k, and on_error has been called for it
SweepBrokenAtSetpoint ==
    /\ sw.pc \in {"clear", "returned"}
    /\ scan_pc = "DeviceError"
    /\ meas_pc = "DeviceError"

\* C27: after a device error at the k-th setpoint of a background sweep the
\* error callback has been invoked exactly once, the rows are exactly the
\* measurements of the setpoints before k in increasing v_out order, and no
\* reset of the output to 0 has been issued.
C27_SweepStopsAtDeviceError ==
    SweepBrokenAtSetpoint =>
        /\ sw.errors = 1
        /\ Len(yielded) = scan_k
        /\ \A j \in 1..Len(yielded) :
              yielded[j].v_out = ArangeAt(args.start, args.step, j - 1)
        /\ \A j \in 1..(Len(yielded) - 1) : yielded[j].v_out < yielded[j + 1].v_out
        /\ \A c \in 1..Len(dev_log) : dev_log[c] # SetCall(CH_VOUT, 0)

C27_Witness ==
    /\ SweepBrokenAtSetpoint
    /\ sw.pc = "returned"
    /\ Len(yielded) >= 2
    /\ sw.errors = 1

\* ==================================== claims on the fit and on the power
\* C29: fit_u_i drops every index where i or i_err is NaN or infinite and
\* floors each remaining i_err at 1e-12; the u, i and weight vectors handed to
\* the optimiser have the same length, the number of clean indices, and each
\* weight belongs to the index of its data point.
C29_FitVectorsAligned ==
    (fn = "fit_u_i" /\ fn_out.done) =>
        LET clean == {j \in 1..Len(fn_in.i) :
                         IsClean(fn_in.i[j]) /\ IsClean(fn_in.i_err[j])}
            res == fn_out.res
        IN  /\ Len(res.U) = Cardinality(clean)
            /\ Len(res.data) = Cardinality(clean)
            /\ Len(res.weights) = Cardinality(clean)
            /\ \A k \in 1..Len(res.weights) :
                  /\ k <= Len(res.data)
                  /\ res.weights[k].idx = res.data[k].idx
                  /\ res.weights[k].idx = res.U[k]
                  /\ res.weights[k].val = "finite"

\* C30: for u # 0 and i # 0 the power uncertainty is
\* p_err = p * sqrt((u_err / u)^2 + (i_err / i)^2); both sides squared:
\* p_err^2 = (i * u_err)^2 + (u * i_err)^2.
C30_PowerErrorCombinesRelativeErrors ==
    (fn = "p_for_u_i" /\ fn_out.done) =>
        fn_out.res.p_err2 =
            (fn_in.i * fn_in.u_err) * (fn_in.i * fn_in.u_err)
                + (fn_in.u * fn_in.i_err) * (fn_in.u * fn_in.i_err)

\* ===================================== claims on the output of the device
\* the calls of set_output_voltage the device received before call c
SetsBefore(c) == {j \in 1..(c - 1) : dev_log[j].op = "set"}

\* the output the device was last set to before call c, if it was set at all
SetpointAt(c) ==
    LET sets == SetsBefore(c)
    IN  IF sets = {} THEN [set |-> FALSE, val |-> 0]
        ELSE [set |-> TRUE,
              val |-> dev_log[CHOOSE j \in sets : \A l \in sets : l <= j].val]

\* C31: every measurement a sweep reports with v_out = x is sampled while the
\* output of the device is set to x: the last set_output_voltage before its
\* raw reads carries x, also for a first setpoint of 0 and after a passive
\* measurement that left the output at another value.
C31_SweepSamplesAtReportedSetpoint ==
    \A j \in 1..Len(yielded) :
        SetpointAt(yielded[j].over[1][1]) = [set |-> TRUE, val |-> yielded[j].v_out]

\* ================================================ claims on the GUI timer
\* the thread of Experiment.scan has ended
WorkerEnded == sw.pc \in {"returned", "uncaught"}

\* C32: from the return of start_scan until the sweep worker has finished the
\* GUI timer finds e_scanning set: under every interleaving of the worker and
\* the timer tick the GUI does not treat the sweep as finished (timer stopped,
\* Scan enabled again, final plot) before the worker has ended.
C32_GuiWaitsForWorker ==
    ~WorkerEnded =>
        /\ gui.scan_timer
        /\ ~gui.scan_btn
        /\ gui.plot_in_progress

\* ================================================ claims on the maximum
\* this step assigns another value to a field of the stored maximum
MaximumChanges == <<p_max, p_max_err>>' # <<p_max, p_max_err>>

\* this step of thread w ends a pass whose fine sweep has been completed:
\* every setpoint measured, the generator exhausted, no error raised
FineSweepCompleted(w) ==
    /\ wk[w].pc = "fine"
    /\ wk[w].k = SweepLen
    /\ Len(wk[w].p_rows) = SweepLen
    /\ wk'[w].pc = "confirm"
    /\ ~wk'[w].failed
    /\ max_pow_error' = max_pow_error

\* this step of thread w is a failure of its pass: the ValueError branch
\* re-invokes the pass, or the device-error branch reports and returns
PassFails(w) ==
    /\ wk[w].pc \in {"coarse", "fine"}
    /\ \/ wk'[w].pc = "coarse" /\ wk'[w].retries = wk[w].retries - 1
       \/ wk'[w].pc = "confirm" /\ wk'[w].failed

\* C33: a scan pass that fails, with a ValueError or a device error, in the
\* coarse or the fine sweep, leaves p_max, p_max_err, r_max, r_max_err and
\* v_out_at_max unchanged; they change only at the end of a pass whose fine
\* sweep completed.
C33_MaximumChangesOnlyAfterFineSweep ==
    [][/\ MaximumChanges => \E w \in Slots : FineSweepCompleted(w)
       /\ \A w \in Slots : PassFails(w) => ~MaximumChanges]_vars

\* a pass has failed with a device error after sweep samples were recorded,
\* and the stored maximum is still the initial one
C33_Witness ==
    /\ \E w \in Slots : wk[w].pc = "confirm" /\ wk[w].failed /\ wk[w].swept
    /\ max_pow_error
    /\ p_r_t_rows # <<>>
    /\ p_max = 0
    /\ p_max_err = 0

\* =========================================== claims on the active trigger
\* thread w is at the test of the active strategy and the test gets as far as
\* the two calls of mean_power_in_time_range
ActiveCompares(w) ==
    /\ wk[w].pc = "active"
    /\ active
    /\ wk[w].t_mod # 0
    /\ GateOpen(since_scan)

\* the entries the two means are taken over
ComparedRows ==
    InTimeRange(p_r_t_rows, 0, WINDOW_MS)
        \o InTimeRange(p_r_t_rows, WINDOW_MS, 2 * WINDOW_MS)

\* C34: whenever the active trigger compares the two 1-second mean powers,
\* neither window contains a sample appended during a coarse or fine sweep:
\* both hold only samples of the passive measurement.
C34_ActiveComparesPassiveSamplesOnly ==
    \A w \in Slots :
        ActiveCompares(w) =>
            \A j \in 1..Len(ComparedRows) : ComparedRows[j].by = "passive"

\* ============================================ claims on pruning in place
\* this step is an append to the window followed by its prune
AppendAndPrune == p_r_t_rows' # p_r_t_rows /\ clock' = clock

\* C35: pruning never empties the rolling window and never fails: every call
\* of pop_old_p_r_t_measurements the tracker makes after an append ends
\* without indexing an empty window and leaves at least the entry appended
\* last in place.
C35_PruneKeepsNewestEntry ==
    [][AppendAndPrune =>
          \E p \in PVals :
             LET pruned == pop_old_p_r_t_measurements(
                               Append(p_r_t_rows, [p |-> p, age |-> 0]))
             IN  /\ ~pruned.error
                 /\ p_r_t_rows' = pruned.rows
                 /\ pruned.rows # <<>>
                 /\ pruned.rows[Len(pruned.rows)] = [p |-> p, age |-> 0]]_vars

\* a sweep sample has just been appended to a window whose entries were all
\* older than 8 s: the prune has popped them and kept the new entry
C35_Witness ==
    /\ \E w \in Slots : wk[w].pc \in {"coarse", "fine"} /\ wk[w].k >= 1
    /\ \E p \in PVals : p_r_t_rows = <<[p |-> p, age |-> 0]>>

\* ============================================ claims on the error timer
\* max_pow_timer_tick has acknowledged an error (tracking stopped,
\* max_pow_error = None, timer stopped) and no tracking session has been
\* started since: the checkbox is still checked and the timer does not run
AcknowledgedNoNewSession == tracking_cb /\ ~max_pow_timer

\* C36: an error of the tracker is handled once and belongs to the running
\* session: after the GUI has acknowledged a tracker error, max_pow_error
\* stays None until a session started afterwards reports an error.
C36_AcknowledgedErrorStaysCleared ==
    AcknowledgedNoNewSession => ~max_pow_error

====
